---------------------------- MODULE Spec2Model ----------------------------
(***************************************************************************)
(* Model of the process query language of src/app/query.rs: the tokenizer *)
(* and recursive-descent parser of ProcessQuery::parse_query, the matcher  *)
(* compilation Query::process_regexes and the evaluator Query::check.      *)
(*                                                                         *)
(* A Rust String is a sequence of one-character strings, Option<T> is the  *)
(* empty sequence (None) or a one-element sequence (Some), Result<T> is a  *)
(* record with an ok flag.  An f64 is the record [n, u] standing for the   *)
(* real number n + u * 2^-53 (u # 0 only for the process fields the model  *)
(* places next to 1.0, where such values are exact f64 values).            *)
(***************************************************************************)
EXTENDS Integers, Sequences, FiniteSets, TLC

VARIABLES
    query,                    \* ProcWidgetState: the current search query (raw text)
    is_searching_whole_word,  \* ProcWidgetState.process_search_state flags
    is_ignoring_case,
    is_searching_with_regex,
    table,                    \* the process records the host evaluates the query on
    pc,                       \* position inside parse_query / after it
    split_query,              \* parse_query: the token deque
    process_filter,           \* parse_query: Option<Query>
    result,                   \* parse_query: "none" (not returned yet), "ok" or the error text
    process,                  \* Option: the record of the last Query::check call
    matched                   \* Option: the result of the last Query::check call

vars == << query, is_searching_whole_word, is_ignoring_case, is_searching_with_regex,
           table, pc, split_query, process_filter, result, process, matched >>

---------------------------------------------------------------------------
(* Option<T> and strings *)

None == << >>
Some(x) == << x >>
IsSome(o) == o # << >>
Unwrap(o) == o[1]

\* char::to_lowercase, for the letters of the model's alphabet
UpperCase == << "A", "B", "C", "D", "E", "F", "G", "H", "I", "J", "K", "L", "M",
                "N", "O", "P", "Q", "R", "S", "T", "U", "V", "W", "X", "Y", "Z" >>
LowerCase == << "a", "b", "c", "d", "e", "f", "g", "h", "i", "j", "k", "l", "m",
                "n", "o", "p", "q", "r", "s", "t", "u", "v", "w", "x", "y", "z" >>

CharToLower(c) ==
    IF \E i \in DOMAIN UpperCase : UpperCase[i] = c
    THEN LowerCase[CHOOSE i \in DOMAIN UpperCase : UpperCase[i] = c]
    ELSE c

\* str::to_lowercase
to_lowercase(s) == [i \in 1..Len(s) |-> CharToLower(s[i])]

\* char::is_whitespace (the white space of the model's alphabet)
IsWhitespace(c) == c \in {" ", "\t", "\n"}

DELIMITER_LIST == {"=", ">", "<", "(", ")"}
AND_LIST == { <<"a", "n", "d">>, <<"&", "&">> }
OR_LIST == { <<"o", "r">>, <<"|", "|">> }

\* the texts the parser compares tokens with
S_eq == <<"=">>
S_gt == <<">">>
S_lt == <<"<">>
S_open == <<"(">>
S_close == <<")">>
S_cpu == <<"c", "p", "u">>
S_mem == <<"m", "e", "m">>
S_r == <<"r">>
S_w == <<"w">>
S_read == <<"r", "e", "a", "d">>
S_write == <<"w", "r", "i", "t", "e">>
S_pid == <<"p", "i", "d">>

ERR_CLOSE == "Missing closing parentheses"
ERR_OPEN == "Missing opening parentheses"
ERR_COMPARATOR == "Failed to parse comparator."
ERR_REGEX == "regex error"

---------------------------------------------------------------------------
(* The tokenizer of parse_query *)

\* str::split_whitespace: the maximal runs of non-white-space characters
RECURSIVE SplitWhitespaceFrom(_, _, _, _)
SplitWhitespaceFrom(s, i, cur, acc) ==
    IF i > Len(s)
    THEN IF cur = << >> THEN acc ELSE Append(acc, cur)
    ELSE IF IsWhitespace(s[i])
         THEN SplitWhitespaceFrom(s, i + 1, << >>,
                                  IF cur = << >> THEN acc ELSE Append(acc, cur))
         ELSE SplitWhitespaceFrom(s, i + 1, Append(cur, s[i]), acc)

split_whitespace(s) == SplitWhitespaceFrom(s, 1, << >>, << >>)

\* mutant: the run of characters before a delimiter is not pushed
RECURSIVE SplitChunkFromLosingRuns(_, _, _, _)
SplitChunkFromLosingRuns(s, index, last, acc) ==
    IF index > Len(s)
    THEN IF last <= Len(s) THEN Append(acc, SubSeq(s, last, Len(s))) ELSE acc
    ELSE IF s[index] \in DELIMITER_LIST
         THEN SplitChunkFromLosingRuns(s, index + 1, index + 1, Append(acc, << s[index] >>))
         ELSE SplitChunkFromLosingRuns(s, index + 1, last, acc)

\* the body of the for_each closure: the loop over match_indices, `last` being
\* the (1-based) index of the first character not yet pushed
RECURSIVE SplitChunkFrom(_, _, _, _)
SplitChunkFrom(s, index, last, acc) ==
    IF index > Len(s)
    THEN IF last <= Len(s) THEN Append(acc, SubSeq(s, last, Len(s))) ELSE acc
    ELSE IF s[index] \in DELIMITER_LIST
         THEN SplitChunkFrom(s, index + 1, index + 1,
                  Append(IF last # index THEN Append(acc, SubSeq(s, last, index - 1))
                                         ELSE acc,
                         << s[index] >>))
         ELSE SplitChunkFrom(s, index + 1, last, acc)

RECURSIVE SplitChunks(_, _)
SplitChunks(chunks, acc) ==
    IF chunks = << >> THEN acc
    ELSE SplitChunks(Tail(chunks), SplitChunkFrom(Head(chunks), 1, 1, acc))

\* lines 296-313: the deque built from the raw query
TokenizeQuery(s) == SplitChunks(split_whitespace(s), << >>)

---------------------------------------------------------------------------
(* Numbers *)

Digits == << "0", "1", "2", "3", "4", "5", "6", "7", "8", "9" >>
IsDigit(c) == \E i \in DOMAIN Digits : Digits[i] = c
DigitValue(c) == (CHOOSE i \in DOMAIN Digits : Digits[i] = c) - 1

RECURSIVE DecimalValue(_)
DecimalValue(s) ==
    IF s = << >> THEN 0
    ELSE DecimalValue(SubSeq(s, 1, Len(s) - 1)) * 10 + DigitValue(s[Len(s)])

\* an f64 holding the integer k
F64(k) == [n |-> k, u |-> 0]

\* mutant: a token that is no number reads as 0.0
ParseF64Lenient(s) ==
    IF s # << >> /\ \A i \in 1..Len(s) : IsDigit(s[i])
    THEN Some(F64(DecimalValue(s)))
    ELSE Some(F64(0))

\* str::parse::<f64>, on the number syntax of the model's tokens: decimal
\* digits, optionally followed by a point and zeros.  (Signs, exponents,
\* fractions, inf and nan do not occur among the model's tokens.)
ParseF64(s) ==
    LET point == IF \E i \in 1..Len(s) : s[i] = "."
                 THEN CHOOSE i \in 1..Len(s) :
                          s[i] = "." /\ \A j \in 1..(i - 1) : s[j] # "."
                 ELSE Len(s) + 1
        whole == SubSeq(s, 1, point - 1)
        frac == SubSeq(s, point + 1, Len(s))
    IN  IF /\ whole # << >>
           /\ \A i \in 1..Len(whole) : IsDigit(whole[i])
           /\ \A i \in 1..Len(frac) : frac[i] = "0"
        THEN Some(F64(DecimalValue(whole)))
        ELSE None

\* f64 multiplication by an integer factor
F64Times(v, k) == [n |-> v.n * k, u |-> v.u * k]

\* lhs < rhs and lhs <= rhs on f64 values n + u * 2^-53 (|u| is far below 2^53)
F64Less(a, b) == a.n < b.n \/ (a.n = b.n /\ a.u < b.u)
F64LessEq(a, b) == a.n < b.n \/ (a.n = b.n /\ a.u <= b.u)

\* f64::EPSILON = 2^-52, in units of 2^-53
EPSILON_UNITS == 2

\* (lhs - rhs).abs() < f64::EPSILON.  A difference of 1 or more in n
\* leaves the difference well above EPSILON.
F64AbsDiffBelowEpsilon(a, b) ==
    /\ a.n = b.n
    /\ a.u - b.u < EPSILON_UNITS
    /\ b.u - a.u < EPSILON_UNITS

---------------------------------------------------------------------------
(* AST nodes: Query, And, Or, Prefix *)

MkAnd(lhs, rhs) == [lhs |-> lhs, rhs |-> rhs]
MkOr(lhs, rhs) == [lhs |-> lhs, rhs |-> rhs]
MkPrefix(and, regex_prefix, compare_prefix) ==
    [and |-> and, regex_prefix |-> regex_prefix, compare_prefix |-> compare_prefix]

StringValue(s) == [kind |-> "Value", value |-> s]
StringRegex(r) == [kind |-> "Regex", regex |-> r]

GroupPrefix(and) == MkPrefix(Some(and), None, None)
RegexPrefix(prefix_type, string_query) ==
    MkPrefix(None, Some(<< prefix_type, string_query >>), None)
ComparePrefix(prefix_type, condition, value) ==
    MkPrefix(None, None, Some(<< prefix_type, [condition |-> condition, value |-> value] >>))

Ok(v, q) == [ok |-> TRUE, val |-> v, q |-> q]
Err(e, q) == [ok |-> FALSE, err |-> e, q |-> q]

\* PrefixType::from_str without the lowering of the token
PrefixTypeCaseSensitive(s) ==
    CASE s = S_cpu -> "Cpu"
      [] s = S_mem -> "Mem"
      [] s = S_r -> "Rps"
      [] s = S_w -> "Wps"
      [] s = S_read -> "TRead"
      [] s = S_write -> "TWrite"
      [] s = S_pid -> "Pid"
      [] OTHER -> "Name"

\* mutant: keywords are recognised in lower case only
PrefixTypeFromStrExact(s) == PrefixTypeCaseSensitive(s)

\* PrefixType::from_str (it never fails)
PrefixTypeFromStr(s) == PrefixTypeCaseSensitive(to_lowercase(s))

\* str::trim_matches('"')
RECURSIVE TrimStart(_)
TrimStart(s) == IF s # << >> /\ Head(s) = "\"" THEN TrimStart(Tail(s)) ELSE s
RECURSIVE TrimEnd(_)
TrimEnd(s) ==
    IF s # << >> /\ s[Len(s)] = "\"" THEN TrimEnd(SubSeq(s, 1, Len(s) - 1)) ELSE s
trim_matches_quote(s) == TrimEnd(TrimStart(s))

---------------------------------------------------------------------------
(* The parser of parse_query: process_and, process_or, process_prefix *)

IsAndWord(tok) == to_lowercase(tok) \in AND_LIST
IsOrWord(tok) == to_lowercase(tok) \in OR_LIST

\* process_prefix, the PrefixType::Name arm: the token itself is the content
ProcessName(content, q) ==
    Ok(RegexPrefix("Name", StringValue(trim_matches_quote(content))), q)

\* mutant: the Pid arm refuses a comparison operator as the text to match
ProcessPidRefusingOperators(content, q) ==
    IF content = S_eq
    THEN IF q # << >>
         THEN Ok(RegexPrefix("Pid", StringValue(Head(q))), Tail(q))
         ELSE Err(ERR_COMPARATOR, q)
    ELSE IF content \in { S_gt, S_lt }
    THEN Err(ERR_COMPARATOR, q)
    ELSE Ok(RegexPrefix("Pid", StringValue(content)), q)

\* process_prefix, the PrefixType::Pid arm
ProcessPid(content, q) ==
    IF content = S_eq
    THEN IF q # << >>
         THEN Ok(RegexPrefix("Pid", StringValue(Head(q))), Tail(q))
         ELSE Err(ERR_COMPARATOR, q)
    ELSE Ok(RegexPrefix("Pid", StringValue(content)), q)

\* process_prefix, the numeric arm: the operator and the value it reads
ReadComparison(content, q) ==
    IF content = S_eq
    THEN IF q # << >>
         THEN [condition |-> Some("Equal"), value |-> ParseF64(Head(q)), q |-> Tail(q)]
         ELSE [condition |-> Some("Equal"), value |-> None, q |-> q]
    ELSE IF content = S_gt \/ content = S_lt
    THEN IF q # << >>
         THEN IF Head(q) = S_eq
              THEN LET condition == IF content = S_gt THEN "GreaterOrEqual"
                                                      ELSE "LessOrEqual"
                       q1 == Tail(q)
                   IN  IF q1 # << >>
                       THEN [condition |-> Some(condition),
                             value |-> ParseF64(Head(q1)), q |-> Tail(q1)]
                       ELSE [condition |-> Some(condition), value |-> None, q |-> q1]
              ELSE [condition |-> Some(IF content = S_gt THEN "Greater" ELSE "Less"),
                    value |-> ParseF64(Head(q)), q |-> Tail(q)]
         ELSE [condition |-> None, value |-> None, q |-> q]
    ELSE [condition |-> None, value |-> None, q |-> q]

\* mutant: the binary units take the factors of the decimal ones
UnitFactorDecimalOnly(potential_unit) ==
    CASE potential_unit \in { <<"T", "B">>, <<"T", "i", "B">> } -> Some(1000000 * 1000000)
      [] potential_unit \in { <<"G", "B">>, <<"G", "i", "B">> } -> Some(1000000000)
      [] potential_unit \in { <<"M", "B">>, <<"M", "i", "B">> } -> Some(1000000)
      [] potential_unit \in { <<"K", "B">>, <<"K", "i", "B">> } -> Some(1000)
      [] potential_unit = <<"B">> -> Some(1)
      [] OTHER -> None

\* the match on potential_unit: the factor of a unit token, None for any
\* other token.  (The products keep TLC's 32-bit literals in range; the
\* model's tokens stay below TB.)
UnitFactor(potential_unit) ==
    CASE potential_unit = <<"T", "B">> -> Some(1000000 * 1000000)
      [] potential_unit = <<"T", "i", "B">> -> Some(1048576 * 1048576)
      [] potential_unit = <<"G", "B">> -> Some(1000000000)
      [] potential_unit = <<"G", "i", "B">> -> Some(1073741824)
      [] potential_unit = <<"M", "B">> -> Some(1000000)
      [] potential_unit = <<"M", "i", "B">> -> Some(1048576)
      [] potential_unit = <<"K", "B">> -> Some(1000)
      [] potential_unit = <<"K", "i", "B">> -> Some(1024)
      [] potential_unit = <<"B">> -> Some(1)
      [] OTHER -> None

\* process_prefix, the numeric arm: the unit peeked at after the value
ApplyUnit(prefix_type, read_value, q) ==
    IF /\ prefix_type \in {"Rps", "Wps", "TRead", "TWrite"}
       /\ q # << >>
       /\ IsSome(UnitFactor(Head(q)))
    THEN [value |-> F64Times(read_value, Unwrap(UnitFactor(Head(q)))), q |-> Tail(q)]
    ELSE [value |-> read_value, q |-> q]

\* process_prefix, the numeric arm
ProcessNumeric(prefix_type, content, q) ==
    LET c == ReadComparison(content, q)
    IN  IF IsSome(c.condition) /\ IsSome(c.value)
        THEN LET v == ApplyUnit(prefix_type, Unwrap(c.value), c.q)
             IN  Ok(ComparePrefix(prefix_type, Unwrap(c.condition), v.value), v.q)
        ELSE Err(ERR_COMPARATOR, c.q)

\* process_prefix below the parenthesis cases: the prefix type and its content
ProcessAtom(queue_top, q) ==
    LET prefix_type == PrefixTypeFromStr(queue_top)
    IN  IF prefix_type = "Name"
        THEN ProcessName(queue_top, q)
        ELSE IF q = << >>
        THEN Err(ERR_COMPARATOR, q)
        ELSE IF prefix_type = "Pid"
        THEN ProcessPid(Head(q), Tail(q))
        ELSE ProcessNumeric(prefix_type, Head(q), Tail(q))

\* mutant: the merge keeps the right operand alone
MergeAndLosingLhs(lhs, rhs) == MkOr(GroupPrefix(MkAnd(Unwrap(rhs), None)), None)

\* process_and, the merge of LHS and RHS into the new left operand
MergeAnd(lhs, rhs) == MkOr(GroupPrefix(MkAnd(lhs, rhs)), None)

\* process_or, the merge of LHS and RHS into the new left operand
MergeOr(lhs, rhs) == GroupPrefix(MkAnd(MkOr(lhs, rhs), None))

RECURSIVE process_and(_)
RECURSIVE process_or(_)
RECURSIVE process_prefix(_)
RECURSIVE AndLoop(_, _, _)
RECURSIVE OrLoop(_, _, _)

\* process_and after `rhs = Some(Box::new(process_or(query)?))`, r being the
\* result of that process_or call: the peek at queue_next and the merge
AndAfterRhs(lhs, r) ==
    IF ~r.ok THEN r
    ELSE IF r.q = << >> THEN Ok(MkAnd(lhs, Some(r.val)), r.q)
    ELSE AndLoop(IF IsAndWord(Head(r.q)) THEN MergeAnd(lhs, Some(r.val)) ELSE lhs,
                 IF IsAndWord(Head(r.q)) THEN None ELSE Some(r.val),
                 r.q)

\* the while loop of process_and
AndLoop(lhs, rhs, q) ==
    IF q # << >> /\ IsAndWord(Head(q))
    THEN AndAfterRhs(lhs, process_or(Tail(q)))
    ELSE Ok(MkAnd(lhs, rhs), q)

\* process_and after `let mut lhs = process_or(query)?`
AndAfterLhs(l) == IF ~l.ok THEN l ELSE AndLoop(l.val, None, l.q)

process_and(q) == AndAfterLhs(process_or(q))

\* process_or after `rhs = Some(Box::new(process_prefix(query)?))`
OrAfterRhs(lhs, r) ==
    IF ~r.ok THEN r
    ELSE IF r.q = << >> THEN Ok(MkOr(lhs, Some(r.val)), r.q)
    ELSE OrLoop(IF IsOrWord(Head(r.q)) THEN MergeOr(lhs, Some(r.val)) ELSE lhs,
                IF IsOrWord(Head(r.q)) THEN None ELSE Some(r.val),
                r.q)

\* the while loop of process_or
OrLoop(lhs, rhs, q) ==
    IF q # << >> /\ IsOrWord(Head(q))
    THEN OrAfterRhs(lhs, process_prefix(Tail(q)))
    ELSE Ok(MkOr(lhs, rhs), q)

\* mutant: process_or returns its first operand, without the while loop
OrAfterLhsWithoutLoop(l) == IF ~l.ok THEN l ELSE Ok(MkOr(l.val, None), l.q)

\* process_or after `let mut lhs = process_prefix(query)?`
OrAfterLhs(l) == IF ~l.ok THEN l ELSE OrLoop(l.val, None, l.q)

process_or(q) == OrAfterLhs(process_prefix(q))

\* process_prefix after `let and = process_and(query)?` of a "(": the
\* token popped next has to be the ")"
CloseGroup(a) ==
    IF ~a.ok THEN a
    ELSE IF a.q = << >> THEN Err(ERR_CLOSE, a.q)
    ELSE IF to_lowercase(Head(a.q)) = S_close
    THEN Ok(GroupPrefix(a.val), Tail(a.q))
    ELSE Err(ERR_CLOSE, Tail(a.q))

process_prefix(q) ==
    IF q = << >> THEN Err(ERR_COMPARATOR, q)
    ELSE IF Head(q) = S_open THEN CloseGroup(process_and(Tail(q)))
    ELSE IF Head(q) = S_close THEN Err(ERR_OPEN, Tail(q))
    ELSE ProcessAtom(Head(q), Tail(q))

\* process_string_to_filter after process_and(query)?
WrapQuery(a) == IF a.ok THEN Ok([query |-> a.val], a.q) ELSE a

process_string_to_filter(q) == WrapQuery(process_and(q))

---------------------------------------------------------------------------
(* The regex crate, as far as the patterns of the model's tokens go: a      *)
(* pattern is an optional ^, an optional (?i), items (a literal, an escaped *)
(* literal, the wildcard ".", each optionally starred) and an optional $.   *)
(* A token never holds a balanced group (the tokenizer makes every          *)
(* parenthesis a token of its own), so an unescaped parenthesis in the body *)
(* is an unclosed or unopened group.                                        *)

\* regex_syntax::is_meta_character
META_CHARACTERS == {"\\", ".", "+", "*", "?", "(", ")", "|", "[", "]", "{", "}",
                    "^", "$", "#", "&", "-", "~"}

\* regex::escape
RECURSIVE regex_escape(_)
regex_escape(s) ==
    IF s = << >> THEN << >>
    ELSE (IF Head(s) \in META_CHARACTERS THEN << "\\", Head(s) >> ELSE << Head(s) >>)
         \o regex_escape(Tail(s))

StartsWith(s, prefix) ==
    Len(s) >= Len(prefix) /\ SubSeq(s, 1, Len(prefix)) = prefix

\* the items of a pattern body, None when the body is no valid expression
RECURSIVE ParseItems(_, _)
ParseItems(body, items) ==
    IF body = << >> THEN Some(items)
    ELSE LET c == Head(body)
         IN  CASE c = "\\" ->
                    IF Len(body) >= 2
                    THEN ParseItems(SubSeq(body, 3, Len(body)),
                             Append(items, [kind |-> "literal", c |-> body[2], star |-> FALSE]))
                    ELSE None
               [] c = "." ->
                    ParseItems(Tail(body),
                        Append(items, [kind |-> "any", c |-> c, star |-> FALSE]))
               [] c = "*" ->
                    IF items = << >> THEN None
                    ELSE ParseItems(Tail(body),
                             [items EXCEPT ![Len(items)].star = TRUE])
               [] c \in {"(", ")", "[", "]", "{", "}", "+", "?", "|"} -> None
               [] OTHER ->
                    ParseItems(Tail(body),
                        Append(items, [kind |-> "literal", c |-> c, star |-> FALSE]))

\* regex::Regex::new
RegexNew(pattern) ==
    LET start == pattern # << >> /\ Head(pattern) = "^"
        p1 == IF start THEN Tail(pattern) ELSE pattern
        icase == StartsWith(p1, << "(", "?", "i", ")" >>)
        p2 == IF icase THEN SubSeq(p1, 5, Len(p1)) ELSE p1
        end == /\ p2 # << >>
               /\ p2[Len(p2)] = "$"
               /\ ~(Len(p2) >= 2 /\ p2[Len(p2) - 1] = "\\"
                    /\ ~(Len(p2) >= 3 /\ p2[Len(p2) - 2] = "\\"))
        body == IF end THEN SubSeq(p2, 1, Len(p2) - 1) ELSE p2
        items == ParseItems(body, << >>)
    IN  IF IsSome(items)
        THEN Some([pattern |-> pattern, start |-> start, icase |-> icase,
                   items |-> Unwrap(items), end |-> end])
        ELSE None

ItemMatches(item, icase, c) ==
    \/ item.kind = "any" /\ c # "\n"
    \/ item.kind = "literal"
       /\ IF icase THEN CharToLower(item.c) = CharToLower(c) ELSE item.c = c

RECURSIVE MatchHere(_, _, _, _)
MatchHere(re, i, text, j) ==
    IF i > Len(re.items) THEN (re.end => j > Len(text))
    ELSE IF re.items[i].star
    THEN \/ MatchHere(re, i + 1, text, j)
         \/ /\ j <= Len(text)
            /\ ItemMatches(re.items[i], re.icase, text[j])
            /\ MatchHere(re, i, text, j + 1)
    ELSE /\ j <= Len(text)
         /\ ItemMatches(re.items[i], re.icase, text[j])
         /\ MatchHere(re, i + 1, text, j + 1)

\* Regex::is_match: an unanchored search
is_match(re, text) ==
    \E j \in 1..(Len(text) + 1) : (re.start => j = 1) /\ MatchHere(re, 1, text, j)

---------------------------------------------------------------------------
(* Query::process_regexes *)

\* the format! of Prefix::process_regexes
FinalRegexString(regex_string, whole_word, ignoring_case, with_regex) ==
    (IF whole_word THEN << "^" >> ELSE << >>)
    \o (IF ignoring_case THEN << "(", "?", "i", ")" >> ELSE << >>)
    \o (IF ~with_regex THEN regex_escape(regex_string) ELSE regex_string)
    \o (IF whole_word THEN << "$" >> ELSE << >>)

\* Prefix::process_regexes on a string criterion: the criterion is taken out
\* of the node before Regex::new runs, and put back only when it succeeds
CompileCriterion(prefix, whole_word, ignoring_case, with_regex) ==
    LET prefix_type == Unwrap(prefix.regex_prefix)[1]
        query_content == Unwrap(prefix.regex_prefix)[2]
    IN  IF query_content.kind = "Value" /\ prefix_type \in {"Pid", "Name"}
        THEN LET r == RegexNew(FinalRegexString(query_content.value, whole_word,
                                                ignoring_case, with_regex))
             IN  IF IsSome(r)
                 THEN [ok |-> TRUE,
                       val |-> [prefix EXCEPT !.regex_prefix =
                                   Some(<< prefix_type, StringRegex(Unwrap(r)) >>)]]
                 ELSE [ok |-> FALSE, val |-> [prefix EXCEPT !.regex_prefix = None]]
        ELSE [ok |-> TRUE, val |-> prefix]

\* the three flags of a process_regexes call
Flags(whole_word, ignoring_case, with_regex) ==
    [whole_word |-> whole_word, ignoring_case |-> ignoring_case,
     with_regex |-> with_regex]

RECURSIVE And_process_regexes(_, _)
RECURSIVE Or_process_regexes(_, _)
RECURSIVE Prefix_process_regexes(_, _)

\* And::process_regexes after self.lhs.process_regexes(...), l being its outcome
AndRhsRegexes(and, l, f) ==
    IF ~l.ok THEN [ok |-> FALSE, val |-> [and EXCEPT !.lhs = l.val]]
    ELSE IF IsSome(and.rhs)
    THEN [ok |-> Or_process_regexes(Unwrap(and.rhs), f).ok,
          val |-> MkAnd(l.val, Some(Or_process_regexes(Unwrap(and.rhs), f).val))]
    ELSE [ok |-> TRUE, val |-> MkAnd(l.val, None)]

And_process_regexes(and, f) == AndRhsRegexes(and, Or_process_regexes(and.lhs, f), f)

\* Or::process_regexes after self.lhs.process_regexes(...), l being its outcome
OrRhsRegexes(or, l, f) ==
    IF ~l.ok THEN [ok |-> FALSE, val |-> [or EXCEPT !.lhs = l.val]]
    ELSE IF IsSome(or.rhs)
    THEN [ok |-> Prefix_process_regexes(Unwrap(or.rhs), f).ok,
          val |-> MkOr(l.val, Some(Prefix_process_regexes(Unwrap(or.rhs), f).val))]
    ELSE [ok |-> TRUE, val |-> MkOr(l.val, None)]

Or_process_regexes(or, f) == OrRhsRegexes(or, Prefix_process_regexes(or.lhs, f), f)

\* Prefix::process_regexes on a group, a being the outcome of and.process_regexes
GroupRegexes(prefix, a) == [ok |-> a.ok, val |-> [prefix EXCEPT !.and = Some(a.val)]]

Prefix_process_regexes(prefix, f) ==
    IF IsSome(prefix.and)
    THEN GroupRegexes(prefix, And_process_regexes(Unwrap(prefix.and), f))
    ELSE IF IsSome(prefix.regex_prefix)
    THEN CompileCriterion(prefix, f.whole_word, f.ignoring_case, f.with_regex)
    ELSE [ok |-> TRUE, val |-> prefix]

\* Query::process_regexes after self.query.process_regexes(...)
QueryRegexes(a) == [ok |-> a.ok, val |-> [query |-> a.val]]

Query_process_regexes(q, whole_word, ignoring_case, with_regex) ==
    QueryRegexes(And_process_regexes(q.query, Flags(whole_word, ignoring_case, with_regex)))

---------------------------------------------------------------------------
(* Query::check *)

\* u32::to_string
RECURSIVE to_string(_)
to_string(k) ==
    IF k < 10 THEN << Digits[k + 1] >>
    ELSE to_string(k \div 10) \o << Digits[(k % 10) + 1] >>

\* mutant: Greater also holds of equal operands
matches_conditionInclusiveGreater(condition, lhs, rhs) ==
    CASE condition = "Equal" -> F64AbsDiffBelowEpsilon(lhs, rhs)
      [] condition = "Less" -> F64Less(lhs, rhs)
      [] condition = "Greater" -> F64LessEq(rhs, lhs)
      [] condition = "LessOrEqual" -> F64LessEq(lhs, rhs)
      [] condition = "GreaterOrEqual" -> F64LessEq(rhs, lhs)

\* matches_condition
matches_condition(condition, lhs, rhs) ==
    CASE condition = "Equal" -> F64AbsDiffBelowEpsilon(lhs, rhs)
      [] condition = "Less" -> F64Less(lhs, rhs)
      [] condition = "Greater" -> F64Less(rhs, lhs)
      [] condition = "LessOrEqual" -> F64LessEq(lhs, rhs)
      [] condition = "GreaterOrEqual" -> F64LessEq(rhs, lhs)

\* the field of the process record a numeric prefix type is compared with
FieldOf(prefix_type, p) ==
    CASE prefix_type = "Cpu" -> p.cpu_usage
      [] prefix_type = "Mem" -> p.mem_usage
      [] prefix_type = "Rps" -> p.rps_f64
      [] prefix_type = "Wps" -> p.wps_f64
      [] prefix_type = "TRead" -> p.tr_f64
      [] prefix_type = "TWrite" -> p.tw_f64

\* Prefix::check on a string criterion
CheckRegexPrefix(regex_prefix, p) ==
    LET prefix_type == regex_prefix[1]
        query_content == regex_prefix[2]
    IN  IF query_content.kind = "Regex"
        THEN CASE prefix_type = "Name" -> is_match(query_content.regex, p.name)
               [] prefix_type = "Pid" -> is_match(query_content.regex, to_string(p.pid))
               [] OTHER -> TRUE
        ELSE TRUE

\* Prefix::check on a numeric criterion
CheckComparePrefix(compare_prefix, p) ==
    LET prefix_type == compare_prefix[1]
        numerical_query == compare_prefix[2]
    IN  IF prefix_type \in {"Cpu", "Mem", "Rps", "Wps", "TRead", "TWrite"}
        THEN matches_condition(numerical_query.condition, FieldOf(prefix_type, p),
                               numerical_query.value)
        ELSE TRUE

RECURSIVE And_check(_, _)
RECURSIVE Or_check(_, _)
RECURSIVE Prefix_check(_, _)

And_check(and, p) ==
    IF IsSome(and.rhs)
    THEN Or_check(and.lhs, p) /\ Or_check(Unwrap(and.rhs), p)
    ELSE Or_check(and.lhs, p)

Or_check(or, p) ==
    IF IsSome(or.rhs)
    THEN Prefix_check(or.lhs, p) \/ Prefix_check(Unwrap(or.rhs), p)
    ELSE Prefix_check(or.lhs, p)

Prefix_check(prefix, p) ==
    IF IsSome(prefix.and) THEN And_check(Unwrap(prefix.and), p)
    ELSE IF IsSome(prefix.regex_prefix)
    THEN CheckRegexPrefix(Unwrap(prefix.regex_prefix), p)
    ELSE IF IsSome(prefix.compare_prefix)
    THEN CheckComparePrefix(Unwrap(prefix.compare_prefix), p)
    ELSE TRUE

Query_check(q, p) == And_check(q.query, p)

---------------------------------------------------------------------------
(* Inputs: raw query texts, flags and process records *)

MaxWords == 3
MaxAtoms == 3

W_a == <<"a">>
W_and == <<"a", "n", "d">>
W_or == <<"o", "r">>
W_5 == <<"5">>

\* the words the enumerated queries are made of
Vocabulary == { W_a, S_open, S_close, W_and, W_or, S_cpu, S_pid, S_gt, S_eq, W_5 }

\* the word sequences of at most k words
WordSeqs(k) == UNION { [1..n -> Vocabulary] : n \in 0..k }

\* the words, separated by single spaces
RECURSIVE JoinWords(_)
JoinWords(ws) ==
    IF ws = << >> THEN << >>
    ELSE IF Len(ws) = 1 THEN ws[1]
    ELSE ws[1] \o << " " >> \o JoinWords(Tail(ws))

WordQueries == { JoinWords(ws) : ws \in WordSeqs(MaxWords) }

\* raw queries written out
Q_pid_gt == <<"p", "i", "d", ">">>
Q_pid_eq == <<"p", "i", "d", "=">>
Q_read_1GiB == <<"r", "e", "a", "d", ">", "1", "G", "i", "B">>
Q_write_500KB == <<"w", "r", "i", "t", "e", "=", "5", "0", "0", "K", "B">>
Q_read_1_GiB == <<"r", "e", "a", "d", ">", "1", " ", "G", "i", "B">>
Q_write_500_KB == <<"w", "r", "i", "t", "e", "=", "5", "0", "0", " ", "K", "B">>
Q_read_2_MiB == <<"r", "e", "a", "d", " ", "<", "=", " ", "2", " ", "M", "i", "B">>
Q_w_3_B == <<"w", ">", "3", " ", "B">>
Q_cpu_5_MB == <<"c", "p", "u", ">", "5", " ", "M", "B">>
Q_cpu_5_mem_5 == <<"c", "p", "u", ">", "5", " ", "m", "e", "m", ">", "5">>
Q_foo_bar == <<"f", "o", "o", " ", "b", "a", "r">>
Q_foo == <<"f", "o", "o">>
Q_quoted_a == <<"\"", "a", "\"">>
Q_quoted_cpu == <<"\"", "c", "p", "u", "\"">>
Q_quoted_a_b == <<"\"", "a", " ", "b", "\"">>
Q_quoted_cpu_gt_5 == <<"\"", "c", "p", "u", ">", "5", "\"">>
Q_CPU_gt_5 == <<"C", "P", "U", ">", "5">>
Q_Cpu_gt_5 == <<"C", "p", "u", " ", ">", " ", "5">>
Q_Pid_5 == <<"P", "i", "d", " ", "5">>
Q_PID_eq_5 == <<"P", "I", "D", "=", "5">>
Q_Foo_5 == <<"F", "o", "o", " ", "5">>
Q_cpu_gt_abc == <<"c", "p", "u", ">", "a", "b", "c">>
Q_a_close == <<"a", " ", ")">>
Q_group_close == <<"(", "a", ")", ")">>
Q_star == <<"*">>
Q_a_dot_b == <<"a", ".", "b">>

ExampleQueries ==
    { Q_pid_gt, Q_pid_eq, Q_read_1GiB, Q_write_500KB, Q_read_1_GiB, Q_write_500_KB,
      Q_read_2_MiB, Q_w_3_B, Q_cpu_5_MB, Q_foo_bar, Q_foo, Q_quoted_a, Q_quoted_cpu,
      Q_quoted_a_b, Q_quoted_cpu_gt_5, Q_CPU_gt_5, Q_Cpu_gt_5, Q_Pid_5, Q_PID_eq_5,
      Q_Foo_5, Q_cpu_gt_abc, Q_a_close, Q_group_close, Q_star, Q_a_dot_b,
      Q_cpu_5_mem_5 }

\* a process record whose six numeric fields all hold v
Proc(name, pid, v) ==
    [name |-> name, pid |-> pid, cpu_usage |-> v, mem_usage |-> v, rps_f64 |-> v,
     wps_f64 |-> v, tr_f64 |-> v, tw_f64 |-> v]

BasicTable == { Proc(W_a, 5, F64(5)), Proc(<<"a", "x", "b">>, 15, F64(6)) }

\* the six numeric prefix keywords, and the record field each one names
FieldWords == << S_cpu, S_mem, S_r, S_w, S_read, S_write >>

FieldValue(i, p) ==
    CASE i = 1 -> p.cpu_usage
      [] i = 2 -> p.mem_usage
      [] i = 3 -> p.rps_f64
      [] i = 4 -> p.wps_f64
      [] i = 5 -> p.tr_f64
      [] i = 6 -> p.tw_f64

\* a process record with the six numeric fields given by f[1..6]
ProcOf(f) ==
    [name |-> W_a, pid |-> 5, cpu_usage |-> f[1], mem_usage |-> f[2], rps_f64 |-> f[3],
     wps_f64 |-> f[4], tr_f64 |-> f[5], tw_f64 |-> f[6]]

\* Boolean queries: atom i is "<field i> > 5", true of the records whose
\* field i is 6 and false of those whose field i is 4
Atom(i) == FieldWords[i] \o << ">", "5" >>

AndSpellings == << W_and, <<"&", "&">>, <<"A", "N", "D">> >>
OrSpellings == << W_or, <<"|", "|">>, <<"O", "r">> >>
OpWord(op, k) == IF op = "and" THEN AndSpellings[k] ELSE OrSpellings[k]

\* A1 op1 A2 op2 ... An
RECURSIVE FlatQuery(_, _, _)
FlatQuery(n, ops, k) ==
    IF n = 1 THEN Atom(1)
    ELSE FlatQuery(n - 1, ops, k) \o << " " >> \o OpWord(ops[n - 1], k)
         \o << " " >> \o Atom(n)

\* (...((A1 op1 A2) op2 A3) ...) op An: every left operand in parentheses
RECURSIVE NestedQuery(_, _, _)
NestedQuery(n, ops, k) ==
    IF n = 1 THEN Atom(1)
    ELSE (IF n > 2 THEN << "(" >> \o NestedQuery(n - 1, ops, k) \o << ")" >>
                   ELSE NestedQuery(n - 1, ops, k))
         \o << " " >> \o OpWord(ops[n - 1], k) \o << " " >> \o Atom(n)

OpSeqs == UNION { [1..(n - 1) -> {"and", "or"}] : n \in 1..MaxAtoms }

BoolQueries ==
    { FlatQuery(Len(ops) + 1, ops, k) : ops \in OpSeqs, k \in 1..3 }
    \cup { NestedQuery(Len(ops) + 1, ops, k) : ops \in OpSeqs, k \in 1..3 }

BoolTable ==
    { ProcOf([i \in 1..6 |-> IF i <= MaxAtoms /\ t[i] THEN F64(6) ELSE F64(4)]) :
        t \in [1..6 -> BOOLEAN] }

\* Single-criterion numeric queries "<field><op>1"
CompareOps == << <<"=">>, <<">">>, <<"<">>, <<">", "=">>, <<"<", "=">> >>
CompareQuery(i, o) == FieldWords[i] \o CompareOps[o] \o << "1" >>
CompareQueries == { CompareQuery(i, o) : i \in 1..6, o \in 1..5 }

\* the f64 just below 1.0: 1 - 2^-53
BelowOne == [n |-> 1, u |-> -1]

\* records in which one field holds x and the five others hold y
CompareTable ==
    { ProcOf([j \in 1..6 |-> IF j = i THEN x ELSE y]) :
        i \in 1..6, x \in { BelowOne, F64(1), F64(2) }, y \in { BelowOne, F64(1), F64(2) } }

\* Queries that end where an operand is expected and cannot be resolved:
\* a lead that expects an operand, then an operand that is missing or cut short
W_abc == <<"a", "b", "c">>

OperandLeads == { << >>, << W_a, W_and >>, << W_a, W_or >>, << S_open >> }

UnresolvedOperands ==
    { << >>, << S_pid >> }
    \cup UNION { { << kw >>, << kw, W_5 >>, << kw, S_gt >>, << kw, S_lt >>, << kw, S_eq >>,
                   << kw, S_gt, S_eq >>, << kw, S_lt, S_eq >>, << kw, S_gt, W_abc >>,
                   << kw, S_eq, W_abc >>, << kw, S_lt, S_eq, W_abc >> } :
                 kw \in { FieldWords[i] : i \in 1..6 } \cup { <<"C", "P", "U">>, <<"M", "e", "m">> } }

UnresolvedSeqs == { lead \o operand : lead \in OperandLeads, operand \in UnresolvedOperands }

UnresolvedQueries == { JoinWords(t) : t \in UnresolvedSeqs }

---------------------------------------------------------------------------
(* The state machine: parse_query step by step, then Query::check calls *)

InitWith(queries, tables) ==
    /\ query \in queries
    /\ is_searching_whole_word \in BOOLEAN
    /\ is_ignoring_case \in BOOLEAN
    /\ is_searching_with_regex \in BOOLEAN
    /\ table \in tables
    /\ pc = "start"
    /\ split_query = << >>
    /\ process_filter = None
    /\ result = "none"
    /\ process = None
    /\ matched = None

Init == InitWith(WordQueries \cup ExampleQueries \cup UnresolvedQueries, { BasicTable })

\* parse_query, lines 296-313: the raw query is split into the token deque
Tokenize ==
    /\ pc = "start"
    /\ split_query' = TokenizeQuery(query)
    /\ pc' = "tokenized"
    /\ UNCHANGED << query, is_searching_whole_word, is_ignoring_case,
                    is_searching_with_regex, table, process_filter, result,
                    process, matched >>

\* parse_query, line 315: process_string_to_filter(&mut split_query)?
ParseTokens ==
    /\ pc = "tokenized"
    /\ LET r == process_string_to_filter(split_query)
       IN  /\ split_query' = r.q
           /\ IF r.ok
              THEN /\ process_filter' = Some(r.val)
                   /\ result' = result
                   /\ pc' = "parsed"
              ELSE /\ process_filter' = None
                   /\ result' = r.err
                   /\ pc' = "done"
    /\ UNCHANGED << query, is_searching_whole_word, is_ignoring_case,
                    is_searching_with_regex, table, process, matched >>

\* parse_query, lines 316-322: process_filter.process_regexes(...)?; Ok(process_filter)
CompileMatchers ==
    /\ pc = "parsed"
    /\ LET c == Query_process_regexes(Unwrap(process_filter), is_searching_whole_word,
                                      is_ignoring_case, is_searching_with_regex)
       IN  /\ process_filter' = Some(c.val)
           /\ result' = IF c.ok THEN "ok" ELSE ERR_REGEX
    /\ pc' = "done"
    /\ UNCHANGED << query, is_searching_whole_word, is_ignoring_case,
                    is_searching_with_regex, table, split_query, process, matched >>

\* a further call of Query::process_regexes (a pub fn of the pub struct Query)
\* on the tree, with any flags, after a call that succeeded or failed
ProcessRegexesAgain(whole_word, ignoring_case, with_regex) ==
    /\ pc = "done"
    /\ IsSome(process_filter)
    /\ LET c == Query_process_regexes(Unwrap(process_filter), whole_word, ignoring_case,
                                      with_regex)
       IN  /\ process_filter' = Some(c.val)
           /\ result' = IF c.ok THEN "ok" ELSE ERR_REGEX
    /\ UNCHANGED << query, is_searching_whole_word, is_ignoring_case,
                    is_searching_with_regex, table, pc, split_query, process, matched >>

\* Query::check on one record of the table, with the query parse_query returned
Check(p) ==
    /\ pc = "done"
    /\ result = "ok"
    /\ process' = Some(p)
    /\ matched' = Some(Query_check(Unwrap(process_filter), p))
    /\ UNCHANGED << query, is_searching_whole_word, is_ignoring_case,
                    is_searching_with_regex, table, pc, split_query, process_filter,
                    result >>

Next ==
    \/ Tokenize
    \/ ParseTokens
    \/ CompileMatchers
    \/ \E whole_word \in BOOLEAN, ignoring_case \in BOOLEAN, with_regex \in BOOLEAN :
          ProcessRegexesAgain(whole_word, ignoring_case, with_regex)
    \/ \E p \in table : Check(p)

Spec == Init /\ [][Next]_vars

\* the Boolean queries, on the records of every truth assignment to the atoms
InitBool == InitWith(BoolQueries, { BoolTable })
SpecBool == InitBool /\ [][Next]_vars

\* the single-criterion numeric queries, on records around the threshold
InitCompare == InitWith(CompareQueries, { CompareTable })
SpecCompare == InitCompare /\ [][Next]_vars

\* every raw query text of up to MaxChars characters over a small alphabet
\* holding a letter, white space and delimiters
MaxChars == 4
RawAlphabet == { "a", " ", "\t", "=", ">", "(" }
RawQueries == UNION { [1..n -> RawAlphabet] : n \in 0..MaxChars }

InitRaw == InitWith(RawQueries, { BasicTable })
SpecRaw == InitRaw /\ [][Next]_vars

---------------------------------------------------------------------------
(* Properties *)

\* the tokens of the raw query
Tokens == TokenizeQuery(query)

\* the Query with the single criterion `prefix`
SingleQuery(prefix) == [query |-> MkAnd(MkOr(prefix, None), None)]

\* the only criterion of a query that is a single criterion
IsSingle(q) == q.query.rhs = None /\ q.query.lhs.rhs = None /\ q.query.lhs.lhs.and = None
OnlyPrefix(q) == q.query.lhs.lhs

\* a single string criterion of the given type and (compiled or raw) text
IsCompiledCriterion(q, prefix_type) ==
    /\ IsSingle(q)
    /\ IsSome(OnlyPrefix(q).regex_prefix)
    /\ Unwrap(OnlyPrefix(q).regex_prefix)[1] = prefix_type
    /\ Unwrap(OnlyPrefix(q).regex_prefix)[2].kind = "Regex"

\* C1 (as claimed): parsing the tokens ["pid", ">"] ends in a query error,
\* whatever the flags are; it never returns Ok.
C1_PidGtIsAnError ==
    (pc = "done" /\ Tokens = << S_pid, S_gt >>) => result # "ok"

\* C1 (amended): parsing the tokens ["pid", ">"] returns Ok, whatever the
\* flags are, with the single Pid string criterion whose text is ">"; the
\* missing-value error is returned for ["pid", "="].
C1_PidGtIsAPidSearch ==
    /\ (pc = "parsed" /\ Tokens = << S_pid, S_gt >>)
          => process_filter = Some(SingleQuery(RegexPrefix("Pid", StringValue(S_gt))))
    /\ (pc = "done" /\ Tokens = << S_pid, S_gt >>)
          => result = "ok" /\ IsCompiledCriterion(Unwrap(process_filter), "Pid")
    /\ (pc = "done" /\ Tokens = << S_pid, S_eq >>) => result = ERR_COMPARATOR

C1_Witness ==
    /\ pc = "done"
    /\ query = Q_pid_gt
    /\ is_searching_with_regex
    /\ result = "ok"
    /\ IsCompiledCriterion(Unwrap(process_filter), "Pid")

\* C2 (as claimed): `read>1GiB` parses to TotalRead > 1073741824 and
\* `write=500KB` to TotalWrite = 500000.
C2_AttachedUnitIsRecognised ==
    /\ (pc = "done" /\ query = Q_read_1GiB)
          => /\ result = "ok"
             /\ process_filter =
                   Some(SingleQuery(ComparePrefix("TRead", "Greater", F64(1073741824))))
    /\ (pc = "done" /\ query = Q_write_500KB)
          => /\ result = "ok"
             /\ process_filter =
                   Some(SingleQuery(ComparePrefix("TWrite", "Equal", F64(500000))))

\* C2 (amended): with the unit as a token of its own, `read>1 GiB` parses to
\* TotalRead > 1073741824 and `write=500 KB` to TotalWrite = 500000, the unit
\* token being consumed; with the unit written directly after the number the
\* value token is no number and parse_query returns the comparator error.
C2_SeparateUnitIsRecognised ==
    /\ (pc = "done" /\ query = Q_read_1_GiB)
          => /\ result = "ok"
             /\ split_query = << >>
             /\ process_filter =
                   Some(SingleQuery(ComparePrefix("TRead", "Greater", F64(1073741824))))
    /\ (pc = "done" /\ query = Q_write_500_KB)
          => /\ result = "ok"
             /\ split_query = << >>
             /\ process_filter =
                   Some(SingleQuery(ComparePrefix("TWrite", "Equal", F64(500000))))
    /\ (pc = "done" /\ query \in { Q_read_1GiB, Q_write_500KB })
          => result = ERR_COMPARATOR

C2_Witness ==
    /\ pc = "done"
    /\ query = Q_read_1_GiB
    /\ result = "ok"
    /\ Unwrap(OnlyPrefix(Unwrap(process_filter)).compare_prefix)[2].value.n = 1073741824

\* atom i of a Boolean query holds of the record p
AtomTrue(i, p) == FieldValue(i, p).n > 5

\* the operator sequences of a chain: one operator, repeated
IsChain(ops) == Len(ops) >= 1 /\ \A i \in 1..Len(ops) : ops[i] = ops[1]
\* the operator sequences that mix the two operators
IsMixed(ops) ==
    (\E i \in 1..Len(ops) : ops[i] = "and") /\ (\E i \in 1..Len(ops) : ops[i] = "or")

\* the value of A1 op1 A2 ... An under And := Or (and Or)*, Or := Prefix (or
\* Prefix)*: every maximal run of atoms joined by `or` holds a true atom
InSameOrRun(ops, i, j) ==
    \A m \in 1..Len(ops) : ((i <= m /\ m < j) \/ (j <= m /\ m < i)) => ops[m] = "or"
GrammarValue(ops, p) ==
    \A i \in 1..(Len(ops) + 1) :
        \E j \in 1..(Len(ops) + 1) : InSameOrRun(ops, i, j) /\ AtomTrue(j, p)

\* the value of (...(A1 op1 A2) op2 A3 ...) opn-1 An, grouped to the left
RECURSIVE LeftValue(_, _, _)
LeftValue(n, ops, p) ==
    IF n = 1 THEN AtomTrue(1, p)
    ELSE IF ops[n - 1] = "and" THEN LeftValue(n - 1, ops, p) /\ AtomTrue(n, p)
    ELSE LeftValue(n - 1, ops, p) \/ AtomTrue(n, p)

\* C3: a chain A1 and ... and An (n >= 2) parses, and check on it is the
\* conjunction of all n atoms, as it is on (..(A1 and A2) and ..) and An; a
\* chain A1 or ... or An evaluates to the disjunction of all n atoms.
C3_ChainFoldKeepsEveryOperand ==
    \A ops \in OpSeqs : \A k \in 1..3 :
        (/\ IsChain(ops)
         /\ query \in { FlatQuery(Len(ops) + 1, ops, k), NestedQuery(Len(ops) + 1, ops, k) })
        => /\ pc = "done" => result = "ok"
           /\ IsSome(matched) =>
                 Unwrap(matched) =
                    IF ops[1] = "and"
                    THEN \A i \in 1..(Len(ops) + 1) : AtomTrue(i, Unwrap(process))
                    ELSE \E i \in 1..(Len(ops) + 1) : AtomTrue(i, Unwrap(process))

\* the longest `and` chain, checked on a record of which only A1 is false
C3_Witness ==
    /\ query = FlatQuery(MaxAtoms, [i \in 1..(MaxAtoms - 1) |-> "and"], 1)
    /\ MaxAtoms >= 3
    /\ matched = Some(FALSE)
    /\ ~AtomTrue(1, Unwrap(process))
    /\ \A i \in 2..MaxAtoms : AtomTrue(i, Unwrap(process))

\* C4: with both operators in a query, each `or` chain is one operand of the
\* enclosing `and`: A or B and C is (A or B) and C, A and B or C is
\* A and (B or C), and the parenthesised (A or B) and C is (A or B) and C.
C4_OrChainsAreAndOperands ==
    \A ops \in OpSeqs : \A k \in 1..3 :
        IsMixed(ops) =>
            /\ (query = FlatQuery(Len(ops) + 1, ops, k) /\ pc = "done") => result = "ok"
            /\ (query = FlatQuery(Len(ops) + 1, ops, k) /\ IsSome(matched))
                  => Unwrap(matched) = GrammarValue(ops, Unwrap(process))
            /\ (query = NestedQuery(Len(ops) + 1, ops, k) /\ IsSome(matched))
                  => Unwrap(matched) = LeftValue(Len(ops) + 1, ops, Unwrap(process))

\* A or B and C on a record with A true and C false: (A or B) and C is false
C4_Witness ==
    /\ query = FlatQuery(3, << "or", "and" >>, 1)
    /\ matched = Some(FALSE)
    /\ AtomTrue(1, Unwrap(process))
    /\ ~AtomTrue(3, Unwrap(process))

\* the criteria (leaf Prefix nodes) of a tree
RECURSIVE AndLeaves(_)
RECURSIVE OrLeaves(_)
RECURSIVE PrefixLeaves(_)
AndLeaves(and) ==
    OrLeaves(and.lhs) \cup (IF IsSome(and.rhs) THEN OrLeaves(Unwrap(and.rhs)) ELSE {})
OrLeaves(or) ==
    PrefixLeaves(or.lhs) \cup (IF IsSome(or.rhs) THEN PrefixLeaves(Unwrap(or.rhs)) ELSE {})
PrefixLeaves(prefix) ==
    IF IsSome(prefix.and) THEN AndLeaves(Unwrap(prefix.and)) ELSE { prefix }

\* the texts of the Name criteria of a query: raw, or the compiled pattern
NameTexts(q) ==
    { IF Unwrap(leaf.regex_prefix)[2].kind = "Value"
      THEN Unwrap(leaf.regex_prefix)[2].value
      ELSE Unwrap(leaf.regex_prefix)[2].regex.pattern :
        leaf \in { l \in AndLeaves(q.query) :
                     IsSome(l.regex_prefix) /\ Unwrap(l.regex_prefix)[1] = "Name" } }

Contains(text, word) ==
    \E i \in 1..(Len(text) + 1) :
        i + Len(word) - 1 <= Len(text) /\ SubSeq(text, i, i + Len(word) - 1) = word

KeywordWords == { FieldWords[i] : i \in 1..6 } \cup { S_pid }

\* a token that is a plain word: no keyword, no operator word, no delimiter, no quote
IsPlainWord(tok) ==
    /\ to_lowercase(tok) \notin KeywordWords
    /\ to_lowercase(tok) \notin AND_LIST \cup OR_LIST
    /\ \A i \in 1..Len(tok) : tok[i] \notin DELIMITER_LIST \cup { "\"" }

\* C5 (as claimed, on the claim's own examples `a )` and `(a))`): a `)` that
\* matches no `(`, after a complete expression, makes parse_query return a
\* 'Missing closing parentheses' or 'Missing opening parentheses' error.
C5_TrailingCloseIsAParenError ==
    (pc = "done" /\ Tokens \in { << W_a, S_close >>, << S_open, W_a, S_close, S_close >> })
        => result \in { ERR_CLOSE, ERR_OPEN }

\* C6 (as claimed): for a query of two or more adjacent plain words, every
\* word is part of the text of a Name criterion of the resulting Query.
C6_AdjacentWordsAreMerged ==
    (/\ pc = "done"
     /\ Len(Tokens) >= 2
     /\ \A i \in 1..Len(Tokens) : IsPlainWord(Tokens[i]))
    => /\ result = "ok"
       /\ \A i \in 1..Len(Tokens) :
             \E text \in NameTexts(Unwrap(process_filter)) : Contains(text, Tokens[i])

\* a query that is one quoted text "T", T holding no quote
IsQuoted(s) ==
    /\ Len(s) >= 3
    /\ s[1] = "\""
    /\ s[Len(s)] = "\""
    /\ \A i \in 2..(Len(s) - 1) : s[i] # "\""

\* C7 (as claimed): a query "T" in double quotes parses to the single Name
\* criterion whose text is T, whatever T holds.
C7_QuotedTextIsOneName ==
    IsQuoted(query) =>
        /\ pc = "parsed" =>
              process_filter =
                 Some(SingleQuery(RegexPrefix("Name",
                                              StringValue(SubSeq(query, 2, Len(query) - 1)))))
        /\ pc = "done" => result \in { "ok", ERR_REGEX }

\* C9: a token sequence that ends where an operand is expected and is missing
\* or cut short (nothing at all, a dangling and/or, a prefix keyword alone, a
\* numeric keyword without operator, without value or with a value that is no
\* number) makes parse_query return the comparator error, never Ok.
C9_UnresolvedOperandIsComparatorError ==
    (pc = "done" /\ Tokens \in UnresolvedSeqs) => result = ERR_COMPARATOR

C9_Witness ==
    /\ pc = "done"
    /\ Tokens = << W_a, W_and, S_cpu, S_gt, W_abc >>
    /\ result = ERR_COMPARATOR

\* the real numbers x and v, each n + u * 2^-53, compared under operator o of
\* CompareOps, equality being exact
ExactCompare(o, x, v) ==
    CASE o = 1 -> x.n = v.n /\ x.u = v.u
      [] o = 2 -> x.n > v.n \/ (x.n = v.n /\ x.u > v.u)
      [] o = 3 -> x.n < v.n \/ (x.n = v.n /\ x.u < v.u)
      [] o = 4 -> x.n > v.n \/ (x.n = v.n /\ x.u >= v.u)
      [] o = 5 -> x.n < v.n \/ (x.n = v.n /\ x.u <= v.u)

\* the same, equality holding of values less than f64::EPSILON = 2^-52 apart
TolerantCompare(o, x, v) ==
    IF o = 1
    THEN x.n = v.n /\ x.u - v.u \in { -1, 0, 1 }
    ELSE ExactCompare(o, x, v)

\* C8 (as claimed): for `<field> <op> 1` and every process record, check
\* returns exactly the comparison of the record's field with 1 under op.
C8_CheckIsExactComparison ==
    \A i \in 1..6, o \in 1..5 :
        (query = CompareQuery(i, o) /\ IsSome(matched))
            => Unwrap(matched) = ExactCompare(o, FieldValue(i, Unwrap(process)), F64(1))

\* C8 (amended): for `<field> <op> 1` and every process record, check returns
\* the comparison of the record's field with 1 under op, strict for > and <,
\* inclusive for >= and <=, and for = true exactly when field and value are
\* less than f64::EPSILON apart.
C8_CheckIsComparisonUpToEpsilon ==
    \A i \in 1..6, o \in 1..5 :
        (query = CompareQuery(i, o) /\ IsSome(matched))
            => Unwrap(matched) = TolerantCompare(o, FieldValue(i, Unwrap(process)), F64(1))

C8_Witness ==
    /\ query = CompareQuery(1, 1)
    /\ IsSome(matched)
    /\ Unwrap(process).cpu_usage = BelowOne
    /\ Unwrap(matched) = TRUE

\* a first token that is no keyword in any case and no parenthesis
IsNameToken(tok) ==
    /\ tok \notin { S_open, S_close }
    /\ to_lowercase(tok) \notin KeywordWords

\* a query whose first atom is its only parsed atom: the second token, if
\* any, is no and/or word
FirstAtomEndsParse ==
    /\ Tokens # << >>
    /\ Len(Tokens) >= 2 => to_lowercase(Tokens[2]) \notin AND_LIST \cup OR_LIST

\* the token without its leading and trailing double quotes
WithoutOuterQuotes(tok) ==
    LET kept == { i \in 1..Len(tok) : tok[i] # "\"" }
    IN  IF kept = {} THEN << >>
        ELSE SubSeq(tok, CHOOSE i \in kept : \A j \in kept : i <= j,
                         CHOOSE i \in kept : \A j \in kept : i >= j)

\* the prefix type a lower-case keyword names
KeywordType(kw) ==
    CASE kw = <<"c", "p", "u">> -> "Cpu"
      [] kw = <<"m", "e", "m">> -> "Mem"
      [] kw = <<"r">> -> "Rps"
      [] kw = <<"w">> -> "Wps"
      [] kw = <<"r", "e", "a", "d">> -> "TRead"
      [] kw = <<"w", "r", "i", "t", "e">> -> "TWrite"
      [] kw = <<"p", "i", "d">> -> "Pid"

\* the first operand of a query
FirstPrefix(q) == q.query.lhs.lhs

\* the prefix type of a criterion
TypeOf(prefix) ==
    IF IsSome(prefix.regex_prefix) THEN Unwrap(prefix.regex_prefix)[1]
    ELSE Unwrap(prefix.compare_prefix)[1]

\* a first token that is a keyword in any case selects the keyword's type
KeywordCaseVariantsSelectType ==
    (/\ pc = "parsed"
     /\ Tokens # << >>
     /\ to_lowercase(Head(Tokens)) \in KeywordWords)
    => /\ FirstPrefix(Unwrap(process_filter)).and = None
       /\ TypeOf(FirstPrefix(Unwrap(process_filter))) = KeywordType(to_lowercase(Head(Tokens)))

\* C10 (as claimed): a first token that is no keyword and no parenthesis
\* raises no error and yields the Name criterion whose text is that same
\* token, no further token being consumed; a case variant of a keyword
\* selects the keyword's prefix type.
C10_NameTextIsTheToken ==
    /\ (FirstAtomEndsParse /\ IsNameToken(Head(Tokens))) =>
          /\ pc = "parsed" =>
                /\ process_filter =
                      Some(SingleQuery(RegexPrefix("Name", StringValue(Head(Tokens)))))
                /\ split_query = Tail(Tokens)
          /\ pc = "done" => result \in { "ok", ERR_REGEX }
    /\ KeywordCaseVariantsSelectType

\* C10 (amended): a first token that is no keyword and no parenthesis raises
\* no error and yields the Name criterion whose text is the token without its
\* leading and trailing double quotes, no further token being consumed; a
\* case variant of a keyword selects the keyword's prefix type.
C10_NameTextIsTheTokenWithoutOuterQuotes ==
    /\ (FirstAtomEndsParse /\ IsNameToken(Head(Tokens))) =>
          /\ pc = "parsed" =>
                /\ process_filter =
                      Some(SingleQuery(RegexPrefix("Name",
                                                   StringValue(WithoutOuterQuotes(Head(Tokens))))))
                /\ split_query = Tail(Tokens)
          /\ pc = "done" => result \in { "ok", ERR_REGEX }
    /\ KeywordCaseVariantsSelectType

C10_Witness ==
    /\ pc = "parsed"
    /\ query = Q_quoted_cpu
    /\ process_filter = Some(SingleQuery(RegexPrefix("Name", StringValue(S_cpu))))
    /\ split_query = << >>

\* the concatenation of the tokens, in order
RECURSIVE Concat(_)
Concat(toks) == IF toks = << >> THEN << >> ELSE Head(toks) \o Concat(Tail(toks))

IsNoWhitespace(c) == ~IsWhitespace(c)

\* the number of positions of the sequence that hold x
Occurrences(seq, x) == Cardinality({ i \in 1..Len(seq) : seq[i] = x })

\* C11: the token sequence built from a raw query (a) holds each occurrence of
\* a delimiter character as a one-character token of its own, (b) holds no
\* empty token, no white space, and no delimiter inside a longer token, and
\* (c) concatenated in order is the query without its white space; the
\* tokenizer step is possible from every query.
C11_TokensPartitionTheQuery ==
    /\ pc = "start" => ENABLED Tokenize
    /\ pc = "tokenized" =>
          /\ \A d \in DELIMITER_LIST :
                Occurrences(split_query, << d >>) = Occurrences(query, d)
          /\ \A i \in 1..Len(split_query) :
                /\ split_query[i] # << >>
                /\ \A j \in 1..Len(split_query[i]) :
                      /\ ~IsWhitespace(split_query[i][j])
                      /\ split_query[i][j] \in DELIMITER_LIST => Len(split_query[i]) = 1
          /\ Concat(split_query) = SelectSeq(query, IsNoWhitespace)

C11_Witness ==
    /\ pc = "tokenized"
    /\ query = << "a", ">", "=", "a" >>
    /\ split_query = << << "a" >>, << ">" >>, << "=" >>, << "a" >> >>

\* every Prefix node of a tree, the group nodes included
RECURSIVE AndNodes(_)
RECURSIVE OrNodes(_)
RECURSIVE PrefixNodes(_)
AndNodes(and) ==
    OrNodes(and.lhs) \cup (IF IsSome(and.rhs) THEN OrNodes(Unwrap(and.rhs)) ELSE {})
OrNodes(or) ==
    PrefixNodes(or.lhs) \cup (IF IsSome(or.rhs) THEN PrefixNodes(Unwrap(or.rhs)) ELSE {})
PrefixNodes(prefix) ==
    { prefix } \cup (IF IsSome(prefix.and) THEN AndNodes(Unwrap(prefix.and)) ELSE {})

\* the number of populated variants of a Prefix node
Populated(prefix) ==
    (IF IsSome(prefix.and) THEN 1 ELSE 0)
    + (IF IsSome(prefix.regex_prefix) THEN 1 ELSE 0)
    + (IF IsSome(prefix.compare_prefix) THEN 1 ELSE 0)

\* C12 (as claimed): after parsing and any number of process_regexes calls,
\* failed ones included, every Prefix node of the tree has exactly one of
\* and / regex_prefix / compare_prefix populated.
C12_EveryPrefixHasOneVariant ==
    IsSome(process_filter) =>
        \A prefix \in AndNodes(Unwrap(process_filter).query) : Populated(prefix) = 1

\* C13 (as claimed): whenever parse_query returns Ok, the parse of the
\* top-level And has consumed every token: none is left in the deque.
C13_OkConsumesEveryToken ==
    (pc = "done" /\ result = "ok") => split_query = << >>

=============================================================================
